---------------------------- MODULE Spec2Model ----------------------------
(***************************************************************************)
(* A model of the CRPL keystroke-rhythm detector (src/crpl/detector.py).   *)
(*                                                                         *)
(* Numbers.  The program computes in floating point; the model computes    *)
(* in exact arithmetic over integers:                                      *)
(*   - a time (timestamp, interval, duration) is a whole number of         *)
(*     milliseconds, so that the program's thresholds (0.15 s, 2 s, 3 s,   *)
(*     5 s, 10 s, 15 s) are whole and round(x, 2) of a time is not the     *)
(*     identity;                                                           *)
(*   - a field the program rounds with round(x, k) holds the rounded       *)
(*     value times 10^k (round half to even, as Python's round; where the  *)
(*     exact value lies half way between two results, the floating-point   *)
(*     value the program rounds may lie on either side of it);             *)
(*   - the consistency score, which involves a square root, is kept as a   *)
(*     pair [D, S] standing for the real number 1 - sqrt(D)/(2*S), and is  *)
(*     compared and rounded exactly.                                       *)
(* An optional value (Python's None) is a sequence of length 0 or 1.       *)
(* A text is a sequence of one-character strings.                          *)
(***************************************************************************)
EXTENDS Integers, Sequences, FiniteSets, TLC

VARIABLES
    events,         \* self.events: the event log
    is_monitoring,  \* self.is_monitoring
    start_time,     \* self.start_time: <<>> (None) or <<t>>
    now,            \* the last value time.time() returned, <<>> before any read
    monotonic,      \* history: no read of the clock was below the one before it
    recorded,       \* history: the events appended since the last start_monitoring
    discarded,      \* history: a start_monitoring has thrown a non-empty log away
    op,             \* the operation that ran last
    args,           \* the arguments of that operation
    ret             \* what it returned: <<>> (None) or <<value>>; an exception
                    \* that left the operation is <<[raised |-> its name]>>

vars == <<events, is_monitoring, start_time, now, monotonic, recorded, discarded,
          op, args, ret>>

-----------------------------------------------------------------------------
(* Bounds of the model *)

\* events in the log of a session
MaxEvents == 2

\* keys typed in a session that is met after they were typed
MaxTyped == 6

\* events in a log handed to the deletion analysis: of any type, and of the
\* types "type", "backspace" and "delete" alone
MaxDeletionLog == 4
MaxDeletionKeys == 7

\* intervals handed to the burst detector: of any length, and of 0.1 s and
\* 1 s alone
MaxBurstIntervals == 6
MaxBurstLong == 11

\* intervals handed to the pause classifier
MaxPauseIntervals == 3

\* hesitations counted for the fluency scorer
MaxHesitations == 6

\* intervals handed to the consistency score
MaxConsistencyIntervals == 3

\* intervals handed to the hesitation mapping
MaxHesitationIntervals == 3

\* letters at the head of an analysed text, and characters of a short text
MaxLetters == 50
MaxTextLen == 4

\* events in a log whose intervals are extracted: in time order, and with
\* timestamps in any order
MaxIntervalLog == 4
MaxIntervalShuffled == 3

(* Inputs of the session operations *)

\* values time.time() and datetime.now() may return, in ms (0 s and 2 s);
\* the clock is the system's wall clock: it may stand still, and it may be
\* set back
Times == {0, 2000}

\* the event_type strings of TypingEvent (src/crpl/types.py:19-20), and
\* "scroll" for a string the program does not recognise
EventTypes == {"type", "backspace", "delete", "selection", "composition",
               "composition_delete", "composition_confirm", "scroll"}

\* the <<char, event_type>> pairs the session is driven with
Keystrokes == {<<"a", "type">>, <<"b", "type">>, <<"", "backspace">>,
               <<"", "scroll">>}

Texts == {<<>>, <<"a", ".", " ", "b">>}

-----------------------------------------------------------------------------
(* Thresholds (src/crpl/detector.py:47-55), the times in milliseconds *)

SHORT_PAUSE_MIN == 2000
SHORT_PAUSE_MAX == 5000
MEDIUM_PAUSE_MIN == 5000
MEDIUM_PAUSE_MAX == 15000
LONG_PAUSE_MIN == 15000
HESITATION_THRESHOLD == 3000
BURST_INTERVAL_MAX == 150
BURST_MIN_LENGTH == 5

-----------------------------------------------------------------------------
(* Arithmetic *)

Max(a, b) == IF a >= b THEN a ELSE b
Min(a, b) == IF a <= b THEN a ELSE b

RECURSIVE Sum(_)
Sum(s) == IF s = <<>> THEN 0 ELSE Head(s) + Sum(Tail(s))

RECURSIVE SumSq(_)
SumSq(s) == IF s = <<>> THEN 0 ELSE Head(s) * Head(s) + SumSq(Tail(s))

\* round(a / b) for b > 0, half to even
RoundDiv(a, b) ==
    LET q == a \div b
        r == a % b
    IN IF 2 * r < b THEN q
       ELSE IF 2 * r > b THEN q + 1
       ELSE IF q % 2 = 0 THEN q ELSE q + 1

\* floor(sqrt(n)) for n >= 0
RECURSIVE ISqrt(_)
ISqrt(n) ==
    IF n < 2 THEN n
    ELSE LET s == 2 * ISqrt(n \div 4)
         IN IF (s + 1) * (s + 1) <= n THEN s + 1 ELSE s

\* [p, r] with p = floor(10^k * sqrt(n)) and r = 10^(2k) * n - p^2, by the
\* schoolbook digit-by-digit method (no intermediate value exceeds 200 * p)
RECURSIVE SqrtDigits(_, _)
SqrtDigits(n, k) ==
    IF k = 0 THEN [p |-> ISqrt(n), r |-> n - ISqrt(n) * ISqrt(n)]
    ELSE LET prev == SqrtDigits(n, k - 1)
             rr   == 100 * prev.r
             x    == CHOOSE d \in 0..9 :
                        /\ (20 * prev.p + d) * d <= rr
                        /\ (d = 9 \/ (20 * prev.p + d + 1) * (d + 1) > rr)
         IN [p |-> 10 * prev.p + x, r |-> rr - (20 * prev.p + x) * x]

-----------------------------------------------------------------------------
(* Exact values *)

\* the rational number n / d, d > 0
Rat(n, d) == [n |-> n, d |-> d]

\* round(x, k) of the rational x, as the integer round(x * 10^k); scale = 10^k
RoundRat(x, scale) == RoundDiv(scale * x.n, x.d)

\* A score is a record [D, S] with D >= 0 and S # 0, standing for the real
\* number 1 - sqrt(D) / (2 * S).
ScoreZero == [D |-> 4, S |-> 1]
ScoreOne == [D |-> 0, S |-> 1]

\* max(0.0, min(1.0, c)): 1 when c >= 1, 0 when c <= 0
Clamp01(c) ==
    IF c.S < 0 \/ c.D = 0 THEN ScoreOne
    ELSE IF c.D >= 4 * c.S * c.S THEN ScoreZero
    ELSE c

\* c > p / q, for a score c in [0, 1] (S > 0) and 0 <= p <= q
ScoreGt(c, p, q) == q * q * c.D < 4 * c.S * c.S * (q - p) * (q - p)

\* ceil(m * 10^k * sqrt(n))
CeilSqrt(n, m, k) ==
    LET s == SqrtDigits(m * m * n, k)
    IN IF s.r = 0 THEN s.p ELSE s.p + 1

\* round-half-even of a real x given f = floor(2 * x) and whether 2 * x = f
RoundHalves(f, exact) ==
    LET j == f \div 2
    IN IF f % 2 = 0 THEN j
       ELSE IF exact /\ j % 2 = 0 THEN j
       ELSE j + 1

\* round(c, 3) * 1000 for a score c in [0, 1]:
\* 2000 * c = (2000 * S - 1000 * sqrt(D)) / S
RoundScore(c) ==
    LET root == SqrtDigits(c.D, 3)
        up   == IF root.r = 0 THEN root.p ELSE root.p + 1
        num  == 2000 * c.S - up
    IN RoundHalves(num \div c.S, root.r = 0 /\ num % c.S = 0)

\* A fluency score is a record [cons, n, d] standing for the real number
\* 3/10 * cons + n / d, cons a score in [0, 1], d = 100 * e with e > 0.
\* floor(2000 * f), where 2000 * f = (S * (600 * e + 20 * n) - 300 * e * sqrt(D)) / (S * e)
FluencyNum(f) ==
    LET e == f.d \div 100
    IN f.cons.S * (600 * e + 20 * f.n) - CeilSqrt(f.cons.D, 3 * e, 2)

FluencyFloor2000(f) == FluencyNum(f) \div (f.cons.S * (f.d \div 100))

FluencyExact2000(f) ==
    /\ SqrtDigits(9 * (f.d \div 100) * (f.d \div 100) * f.cons.D, 2).r = 0
    /\ FluencyNum(f) % (f.cons.S * (f.d \div 100)) = 0

\* f >= k / 1000
FluencyGeq(f, k) == FluencyFloor2000(f) >= 2 * k

\* round(f, 3) * 1000
RoundFluency(f) == RoundHalves(FluencyFloor2000(f), FluencyExact2000(f))


-----------------------------------------------------------------------------
(* The analysis (RhythmDetector._analyze and the methods it calls) *)

\* the log itself, whatever the types of its events
EventsUnfiltered(log, types) == log

\* the sub-sequence of the log whose event_type is in types
EventsOfType(log, types) == SelectSeq(log, LAMBDA e : e.event_type \in types)

\* for i in range(1, len(type_events)): timestamp[i] - timestamp[i-1]
Intervals(type_events) ==
    [i \in 1..(IF Len(type_events) = 0 THEN 0 ELSE Len(type_events) - 1) |->
        type_events[i + 1].timestamp - type_events[i].timestamp]

\* _calculate_consistency returning 1 - cv / 2 as it is
_calculate_consistency_unclamped(intervals) ==
    IF Len(intervals) < 2 THEN ScoreZero
    ELSE IF Sum(intervals) = 0 THEN ScoreZero
    ELSE [D |-> Len(intervals) * SumSq(intervals)
                    - Sum(intervals) * Sum(intervals),
          S |-> Sum(intervals)]

_calculate_consistency(intervals) ==
    IF Len(intervals) < 2 THEN ScoreZero
    ELSE IF Sum(intervals) = 0 THEN ScoreZero      \* mean == 0
    ELSE \* cv = std_dev / mean = sqrt(n * sum(x^2) - sum(x)^2) / sum(x)
         Clamp01([D |-> Len(intervals) * SumSq(intervals)
                          - Sum(intervals) * Sum(intervals),
                  S |-> Sum(intervals)])

\* _analyze_pauses testing the buckets from short to long
_analyze_pauses_short_first(intervals) ==
    LET idx == 1..Len(intervals)
        short_pauses == Cardinality({i \in idx :
            SHORT_PAUSE_MIN <= intervals[i] /\ intervals[i] < SHORT_PAUSE_MAX})
        medium_pauses == Cardinality({i \in idx :
            MEDIUM_PAUSE_MIN <= intervals[i] /\ intervals[i] < MEDIUM_PAUSE_MAX})
        long_pauses == Cardinality({i \in idx : intervals[i] >= LONG_PAUSE_MIN})
        pattern == IF short_pauses > 0 THEN "choppy"
                   ELSE IF medium_pauses > 0 THEN "thoughtful"
                   ELSE IF long_pauses > 0 THEN "contemplative"
                   ELSE "continuous"
    IN [short_pauses |-> short_pauses, medium_pauses |-> medium_pauses,
        long_pauses |-> long_pauses, pattern |-> pattern]

_analyze_pauses(intervals) ==
    LET idx == 1..Len(intervals)
        short_pauses == Cardinality({i \in idx :
            SHORT_PAUSE_MIN <= intervals[i] /\ intervals[i] < SHORT_PAUSE_MAX})
        medium_pauses == Cardinality({i \in idx :
            MEDIUM_PAUSE_MIN <= intervals[i] /\ intervals[i] < MEDIUM_PAUSE_MAX})
        long_pauses == Cardinality({i \in idx : intervals[i] >= LONG_PAUSE_MIN})
        pattern == IF long_pauses > 0 THEN "contemplative"
                   ELSE IF medium_pauses > 0 THEN "thoughtful"
                   ELSE IF short_pauses > 0 THEN "choppy"
                   ELSE "continuous"
    IN [short_pauses |-> short_pauses, medium_pauses |-> medium_pauses,
        long_pauses |-> long_pauses, pattern |-> pattern]

\* the loop of _analyze_deletions over the log from event i on;
\* st = [patterns, consecutive]
RECURSIVE DeletionScan(_, _, _)
DeletionScan(log, i, st) ==
    IF i > Len(log) THEN st
    ELSE IF log[i].event_type \in {"backspace", "delete"}
         THEN DeletionScan(log, i + 1,
                  [st EXCEPT !.consecutive = st.consecutive + 1])
         ELSE DeletionScan(log, i + 1,
                  [patterns |-> IF st.consecutive >= 3
                                THEN Append(st.patterns,
                                         [type |-> "consecutive",
                                          length |-> st.consecutive])
                                ELSE st.patterns,
                   consecutive |-> 0])

\* <<deletion_count, deletion_ratio, patterns>>
_analyze_deletions(log) ==
    LET deletion_events ==
            EventsOfType(log, {"backspace", "delete", "composition_delete"})
        deletion_count == Len(deletion_events)
        deletion_ratio == IF log # <<>> THEN Rat(deletion_count, Len(log))
                          ELSE Rat(0, 1)
    IN <<deletion_count, deletion_ratio,
         DeletionScan(log, 1, [patterns |-> <<>>, consecutive |-> 0]).patterns>>

\* <<modification_count, modifications>>
_analyze_modifications(log) == <<Len(EventsOfType(log, {"selection"})), <<>> >>

\* BurstSegment with the start counted from 1
BurstSegmentFromOne(st) ==
    [start |-> st.burst_start + 1,
     length |-> st.current_burst_length,
     avg_speed |-> IF st.current_burst_time > 0
                   THEN RoundDiv(10 * 1000 * st.current_burst_length,
                                 st.current_burst_time)
                   ELSE 0]

\* round(current_burst_length / current_burst_time, 1) * 10, times in ms
BurstSegment(st) ==
    [start |-> st.burst_start,
     length |-> st.current_burst_length,
     avg_speed |-> IF st.current_burst_time > 0
                   THEN RoundDiv(10 * 1000 * st.current_burst_length,
                                 st.current_burst_time)
                   ELSE 0]

\* the loop of _detect_bursts from interval i on (i counts from 1, the burst
\* start from 0 as in the program);
\* st = [bursts, current_burst_length, current_burst_time, burst_start]
RECURSIVE BurstScan(_, _, _)
BurstScan(intervals, i, st) ==
    IF i > Len(intervals) THEN st
    ELSE IF intervals[i] < BURST_INTERVAL_MAX
         THEN BurstScan(intervals, i + 1,
                  [bursts |-> st.bursts,
                   burst_start |-> IF st.current_burst_length = 0
                                   THEN i - 1 ELSE st.burst_start,
                   current_burst_length |-> st.current_burst_length + 1,
                   current_burst_time |-> st.current_burst_time + intervals[i]])
         ELSE BurstScan(intervals, i + 1,
                  [bursts |-> IF st.current_burst_length >= BURST_MIN_LENGTH
                              THEN Append(st.bursts, BurstSegment(st))
                              ELSE st.bursts,
                   burst_start |-> st.burst_start,
                   current_burst_length |-> 0,
                   current_burst_time |-> 0])

RECURSIVE MaxSpeed(_)
MaxSpeed(bursts) ==
    IF bursts = <<>> THEN 0
    ELSE IF Len(bursts) = 1 THEN bursts[1].avg_speed
    ELSE Max(Head(bursts).avg_speed, MaxSpeed(Tail(bursts)))

\* _detect_bursts without the check of the final burst
_detect_bursts_dropping_trailing(intervals) ==
    LET st == BurstScan(intervals, 1,
                  [bursts |-> <<>>, burst_start |-> 0,
                   current_burst_length |-> 0, current_burst_time |-> 0])
    IN <<Len(st.bursts), st.bursts, MaxSpeed(st.bursts)>>

\* <<burst_count, bursts, max_speed>>
_detect_bursts(intervals) ==
    LET st == BurstScan(intervals, 1,
                  [bursts |-> <<>>, burst_start |-> 0,
                   current_burst_length |-> 0, current_burst_time |-> 0])
        bursts == IF st.current_burst_length >= BURST_MIN_LENGTH
                  THEN Append(st.bursts, BurstSegment(st))
                  ELSE st.bursts
    IN <<Len(bursts), bursts, MaxSpeed(bursts)>>

\* one hesitation record; duration is round(interval, 2) * 100
Hesitation(i, interval) ==
    [location |-> i,
     duration |-> RoundDiv(interval, 10),
     severity |-> IF interval >= 10000 THEN "very_long"
                  ELSE IF interval >= 5000 THEN "long"
                  ELSE "medium"]

\* the 1-based indices of the intervals that are hesitations, ascending
RECURSIVE HesitationIndices(_, _)
HesitationIndices(intervals, i) ==
    IF i > Len(intervals) THEN <<>>
    ELSE IF intervals[i] >= HESITATION_THRESHOLD
         THEN <<i>> \o HesitationIndices(intervals, i + 1)
         ELSE HesitationIndices(intervals, i + 1)

\* _map_hesitations with the locations counted from 1
_map_hesitations_from_one(intervals) ==
    LET at == HesitationIndices(intervals, 1)
        locations == [k \in 1..Len(at) |-> at[k]]
        hesitations == [k \in 1..Len(at) |-> Hesitation(at[k], intervals[at[k]])]
    IN <<Len(hesitations), locations, hesitations>>

\* <<hesitation_count, locations, hesitations>>, locations counted from 0
_map_hesitations(intervals) ==
    LET at == HesitationIndices(intervals, 1)
        locations == [k \in 1..Len(at) |-> at[k] - 1]
        hesitations == [k \in 1..Len(at) |-> Hesitation(at[k] - 1, intervals[at[k]])]
    IN <<Len(hesitations), locations, hesitations>>

\* _calculate_fluency testing the bands with ">" in place of ">="
_calculate_fluency_exclusive(consistency, deletion_ratio, pause_pattern, hesitation_count) ==
    LET deletion_num == Max(0, deletion_ratio.d - 2 * deletion_ratio.n)
        pause_num == Max(0, 10 - (pause_pattern.short_pauses
                                  + pause_pattern.medium_pauses * 2
                                  + pause_pattern.long_pauses * 3))
        hesitation_num == Max(0, 5 - hesitation_count)
        fluency_score ==
            [cons |-> consistency,
             n |-> 30 * deletion_num + 2 * pause_num * deletion_ratio.d
                   + 4 * hesitation_num * deletion_ratio.d,
             d |-> 100 * deletion_ratio.d]
        Gt(k) == /\ FluencyGeq(fluency_score, k)
                 /\ ~(FluencyFloor2000(fluency_score) = 2 * k
                      /\ FluencyExact2000(fluency_score))
        level == IF Gt(800) THEN "very_fluent"
                 ELSE IF Gt(600) THEN "fluent"
                 ELSE IF Gt(400) THEN "normal"
                 ELSE "hesitant"
    IN <<fluency_score, level>>

\* _calculate_fluency taking the level from the score rounded to three places
_calculate_fluency_on_rounded(consistency, deletion_ratio, pause_pattern, hesitation_count) ==
    LET deletion_num == Max(0, deletion_ratio.d - 2 * deletion_ratio.n)
        pause_num == Max(0, 10 - (pause_pattern.short_pauses
                                  + pause_pattern.medium_pauses * 2
                                  + pause_pattern.long_pauses * 3))
        hesitation_num == Max(0, 5 - hesitation_count)
        fluency_score ==
            [cons |-> consistency,
             n |-> 30 * deletion_num + 2 * pause_num * deletion_ratio.d
                   + 4 * hesitation_num * deletion_ratio.d,
             d |-> 100 * deletion_ratio.d]
        rounded == RoundFluency(fluency_score)
        level == IF rounded >= 800 THEN "very_fluent"
                 ELSE IF rounded >= 600 THEN "fluent"
                 ELSE IF rounded >= 400 THEN "normal"
                 ELSE "hesitant"
    IN <<fluency_score, level>>

\* <<fluency_score, level>>
_calculate_fluency(consistency, deletion_ratio, pause_pattern, hesitation_count) ==
    LET \* deletion_score = max(0, 1 - deletion_ratio * 2), over deletion_ratio.d
        deletion_num == Max(0, deletion_ratio.d - 2 * deletion_ratio.n)
        \* pause_score = max(0, 1 - pause_penalty), over 10
        pause_num == Max(0, 10 - (pause_pattern.short_pauses
                                  + pause_pattern.medium_pauses * 2
                                  + pause_pattern.long_pauses * 3))
        \* hesitation_score = max(0, 1 - hesitation_count / 5), over 5
        hesitation_num == Max(0, 5 - hesitation_count)
        \* 0.30 * deletion_score + 0.20 * pause_score + 0.20 * hesitation_score
        fluency_score ==
            [cons |-> consistency,
             n |-> 30 * deletion_num + 2 * pause_num * deletion_ratio.d
                   + 4 * hesitation_num * deletion_ratio.d,
             d |-> 100 * deletion_ratio.d]
        level == IF FluencyGeq(fluency_score, 800) THEN "very_fluent"
                 ELSE IF FluencyGeq(fluency_score, 600) THEN "fluent"
                 ELSE IF FluencyGeq(fluency_score, 400) THEN "normal"
                 ELSE "hesitant"
    IN <<fluency_score, level>>

_classify_rhythm_type(cpm, consistency, pause_pattern) ==
    IF cpm.n > 120 * cpm.d
    THEN IF ScoreGt(consistency, 7, 10)
         THEN IF pause_pattern = "continuous" THEN "steady_fast" ELSE "burst_fast"
         ELSE "erratic_fast"
    ELSE IF cpm.n < 60 * cpm.d
    THEN IF ScoreGt(consistency, 7, 10) THEN "steady_slow"
         ELSE IF pause_pattern \in {"thoughtful", "contemplative"} THEN "hesitant"
         ELSE "labored"
    ELSE IF ScoreGt(consistency, 7, 10) THEN "fluid"
         ELSE IF pause_pattern = "thoughtful" THEN "measured"
         ELSE "uneven"


\* the characters of the classes the regular expressions of
\* _analyze_text_rhythm name, and the white space str.strip() removes; a
\* character outside ASCII is written as its code point
SentenceEnd == {".", "!", "?", "U+3002", "U+FF01", "U+FF1F"}
Punctuation == {".", ",", "!", "?", ";", ":", "U+FF0C", "U+3002", "U+FF01", "U+FF1F", "U+FF1B", "U+FF1A", "U+FF5E", "~"}
WhiteSpace == {" "}

\* SentenceScan counting the fragments that hold white space alone as well
RECURSIVE SentenceScanCountingBlank(_, _, _)
SentenceScanCountingBlank(text, i, open) ==
    IF i > Len(text) THEN 0
    ELSE IF text[i] \in SentenceEnd
         THEN SentenceScanCountingBlank(text, i + 1, FALSE)
    ELSE IF open THEN SentenceScanCountingBlank(text, i + 1, open)
    ELSE 1 + SentenceScanCountingBlank(text, i + 1, TRUE)

\* len([s.strip() for s in re.split(r'[.!?...]+', text) if s.strip()]) from
\* character i on: the fragments between runs of sentence ends that hold a
\* character other than white space; open: the current fragment holds one
RECURSIVE SentenceScan(_, _, _)
SentenceScan(text, i, open) ==
    IF i > Len(text) THEN 0
    ELSE IF text[i] \in SentenceEnd THEN SentenceScan(text, i + 1, FALSE)
    ELSE IF text[i] \in WhiteSpace \/ open THEN SentenceScan(text, i + 1, open)
    ELSE 1 + SentenceScan(text, i + 1, TRUE)

_analyze_text_rhythm(text) ==
    LET sentences == SentenceScan(text, 1, FALSE)
        sentence_count == IF sentences = 0 THEN 1 ELSE sentences
        avg_sentence_length == Rat(Len(text), sentence_count)
        punctuation == Cardinality({i \in 1..Len(text) : text[i] \in Punctuation})
        punctuation_rate == IF text # <<>> THEN Rat(punctuation, Len(text))
                            ELSE Rat(0, 1)
        short == avg_sentence_length.n < 20 * avg_sentence_length.d
        long  == avg_sentence_length.n >= 50 * avg_sentence_length.d
        \* punctuation_rate < 0.05, punctuation_rate >= 0.08
        sparse == 100 * punctuation_rate.n < 5 * punctuation_rate.d
        dense  == 100 * punctuation_rate.n >= 8 * punctuation_rate.d
        category == IF short /\ sparse THEN "concise"
                    ELSE IF short /\ ~sparse THEN "staccato"
                    ELSE IF long /\ sparse THEN "flowing"
                    ELSE IF long /\ dense THEN "complex"
                    ELSE IF dense THEN "punctuated"
                    ELSE "balanced"
    IN [sentence_count |-> sentence_count,
        avg_sentence_length |-> RoundRat(avg_sentence_length, 10),
        punctuation_rate |-> RoundRat(punctuation_rate, 1000),
        rhythm_category |-> category]

\* the Profile of an analysed session; stamp is datetime.now()
_analyze(log, start, final_text, end_time, stamp) ==
    LET duration == end_time - start
        total_keystrokes == Len(log)
        actual_chars == Len(final_text)
        type_events ==
            EventsOfType(log, {"type", "composition", "composition_confirm"})
        intervals == Intervals(type_events)
        avg_interval == IF intervals # <<>> THEN Rat(Sum(intervals), Len(intervals))
                        ELSE Rat(0, 1)
        \* actual_chars / duration * 60, duration in ms
        cpm == IF duration > 0 THEN Rat(actual_chars * 1000 * 60, duration)
               ELSE Rat(0, 1)
        consistency == _calculate_consistency(intervals)
        pause_pattern == _analyze_pauses(intervals)
        deletions == _analyze_deletions(log)
        modifications == _analyze_modifications(log)
        bursts == _detect_bursts(intervals)
        hesitations == _map_hesitations(intervals)
        fluency == _calculate_fluency(consistency, deletions[2], pause_pattern,
                                      hesitations[1])
        rhythm_type == _classify_rhythm_type(cpm, consistency, pause_pattern.pattern)
        text_rhythm == _analyze_text_rhythm(final_text)
        keystroke_ratio == IF actual_chars > 0 THEN Rat(total_keystrokes, actual_chars)
                           ELSE Rat(0, 1)
    IN [timestamp |-> stamp,
        duration_seconds |-> RoundDiv(duration, 10),
        chars_per_minute |-> RoundRat(cpm, 10),
        pause_pattern |-> pause_pattern,
        consistency |-> RoundScore(consistency),
        text_rhythm |-> text_rhythm,
        rhythm_type |-> rhythm_type,
        total_keystrokes |-> total_keystrokes,
        actual_chars |-> actual_chars,
        \* seconds to 3 places are milliseconds
        avg_interval |-> RoundDiv(avg_interval.n, avg_interval.d),
        deletion_count |-> deletions[1],
        deletion_ratio |-> RoundRat(deletions[2], 1000),
        deletion_patterns |-> deletions[3],
        modification_count |-> modifications[1],
        modifications |-> modifications[2],
        burst_count |-> bursts[1],
        burst_segments |-> bursts[2],
        max_burst_speed |-> RoundDiv(bursts[3], 1),
        hesitation_count |-> hesitations[1],
        hesitation_locations |-> hesitations[2],
        hesitations |-> hesitations[3],
        fluency_score |-> RoundFluency(fluency[1]),
        fluency_level |-> fluency[2],
        typing_trajectory |->
            [i \in 1..Len(log) |-> [type |-> log[i].event_type,
                                    char |-> log[i].char,
                                    time |-> log[i].timestamp]],
        keystroke_ratio |-> RoundRat(keystroke_ratio, 100)]

\* the time accumulated over each burst _detect_bursts emits
BurstTimes(intervals) ==
    LET bursts == _detect_bursts(intervals)[2]
    IN {Sum(SubSeq(intervals, bursts[k].start + 1,
                   bursts[k].start + bursts[k].length)) : k \in 1..Len(bursts)}

\* Denominators dividing by the duration and by the burst time untested
DenominatorsUntested(log, start, final_text, end_time) ==
    LET intervals ==
            Intervals(EventsOfType(log, {"type", "composition", "composition_confirm"}))
    IN (IF intervals # <<>> THEN {Len(intervals)} ELSE {})
       \cup {end_time - start}
       \cup (IF Len(final_text) > 0 THEN {Len(final_text)} ELSE {})
       \cup (IF Len(intervals) >= 2 /\ Sum(intervals) # 0
             THEN {Sum(intervals)} ELSE {})
       \cup (IF log # <<>> THEN {Len(log)} ELSE {})
       \cup BurstTimes(intervals)
       \cup {_analyze_text_rhythm(final_text).sentence_count}

\* the denominators of the divisions that _analyze and the methods it calls
\* evaluate, each under the test the program makes before it divides
\* (a division by a literal is left out); a zero among them is a
\* ZeroDivisionError
Denominators(log, start, final_text, end_time) ==
    LET intervals ==
            Intervals(EventsOfType(log, {"type", "composition", "composition_confirm"}))
    IN \* sum(intervals) / len(intervals) if intervals else 0, and the same
       \* length in _calculate_consistency after "len(intervals) < 2"
       (IF intervals # <<>> THEN {Len(intervals)} ELSE {})
       \* actual_chars / duration * 60 if duration > 0 else 0
       \cup (IF end_time - start > 0 THEN {end_time - start} ELSE {})
       \* total_keystrokes / actual_chars if actual_chars > 0 else 0, and
       \* len(punctuation) / len(text) if text else 0
       \cup (IF Len(final_text) > 0 THEN {Len(final_text)} ELSE {})
       \* std_dev / mean, after "if mean == 0: return 0.0"
       \cup (IF Len(intervals) >= 2 /\ Sum(intervals) # 0
             THEN {Sum(intervals)} ELSE {})
       \* deletion_count / len(self.events) if self.events else 0
       \cup (IF log # <<>> THEN {Len(log)} ELSE {})
       \* current_burst_length / current_burst_time if current_burst_time > 0
       \cup {time \in BurstTimes(intervals) : time > 0}
       \* len(text) / sentence_count, sentence_count = len(sentences) or 1
       \cup {_analyze_text_rhythm(final_text).sentence_count}

\* the empty default without the field added last to the computed Profile
_empty_result_without_ratio(stamp) ==
    [timestamp |-> stamp,
     duration_seconds |-> 0,
     chars_per_minute |-> 0,
     pause_pattern |-> [short_pauses |-> 0, medium_pauses |-> 0,
                        long_pauses |-> 0, pattern |-> "continuous"],
     consistency |-> 0,
     text_rhythm |-> [sentence_count |-> 0, avg_sentence_length |-> 0,
                      punctuation_rate |-> 0, rhythm_category |-> "balanced"],
     rhythm_type |-> "balanced",
     total_keystrokes |-> 0,
     actual_chars |-> 0,
     avg_interval |-> 0,
     deletion_count |-> 0,
     deletion_ratio |-> 0,
     deletion_patterns |-> <<>>,
     modification_count |-> 0,
     modifications |-> <<>>,
     burst_count |-> 0,
     burst_segments |-> <<>>,
     max_burst_speed |-> 0,
     hesitation_count |-> 0,
     hesitation_locations |-> <<>>,
     hesitations |-> <<>>,
     fluency_score |-> 0,
     fluency_level |-> "normal",
     typing_trajectory |-> <<>>]

_empty_result(stamp) ==
    [timestamp |-> stamp,
     duration_seconds |-> 0,
     chars_per_minute |-> 0,
     pause_pattern |-> [short_pauses |-> 0, medium_pauses |-> 0,
                        long_pauses |-> 0, pattern |-> "continuous"],
     consistency |-> 0,
     text_rhythm |-> [sentence_count |-> 0, avg_sentence_length |-> 0,
                      punctuation_rate |-> 0, rhythm_category |-> "balanced"],
     rhythm_type |-> "balanced",
     total_keystrokes |-> 0,
     actual_chars |-> 0,
     avg_interval |-> 0,
     deletion_count |-> 0,
     deletion_ratio |-> 0,
     deletion_patterns |-> <<>>,
     modification_count |-> 0,
     modifications |-> <<>>,
     burst_count |-> 0,
     burst_segments |-> <<>>,
     max_burst_speed |-> 0,
     hesitation_count |-> 0,
     hesitation_locations |-> <<>>,
     hesitations |-> <<>>,
     fluency_score |-> 0,
     fluency_level |-> "normal",
     typing_trajectory |-> <<>>,
     keystroke_ratio |-> 0]

-----------------------------------------------------------------------------
(* The session (RhythmDetector's public operations) *)

\* time.time() returns t
ReadClock(t) ==
    /\ now' = <<t>>
    /\ monotonic' = (monotonic /\ (now = <<>> \/ now[1] <= t))

\* "not self.start_time": None and 0.0 are both false
Falsy(time) == time = <<>> \/ time[1] = 0

Init ==
    /\ events = <<>>
    /\ is_monitoring = FALSE
    /\ start_time = <<>>
    /\ now = <<>>
    /\ monotonic = TRUE
    /\ recorded = <<>>
    /\ discarded = FALSE
    /\ op = "__init__"
    /\ args = <<>>
    /\ ret = <<>>

\* start_monitoring without "self.events = []"
start_monitoring_keeping_log(t) ==
    /\ events' = events
    /\ is_monitoring' = TRUE
    /\ ReadClock(t)
    /\ start_time' = <<t>>
    /\ recorded' = <<>>
    /\ discarded' = (discarded \/ events # <<>>)
    /\ op' = "start_monitoring"
    /\ args' = <<>>
    /\ ret' = <<>>

start_monitoring(t) ==
    /\ events' = <<>>
    /\ is_monitoring' = TRUE
    /\ ReadClock(t)
    /\ start_time' = <<t>>
    /\ recorded' = <<>>
    /\ discarded' = (discarded \/ events # <<>>)
    /\ op' = "start_monitoring"
    /\ args' = <<>>
    /\ ret' = <<>>

\* record_keystroke without "if not self.is_monitoring: return"
record_keystroke_unguarded(char, event_type, t) ==
    /\ op' = "record_keystroke"
    /\ args' = <<char, event_type>>
    /\ ret' = <<>>
    /\ Len(events) < MaxEvents
    /\ ReadClock(t)
    /\ events' = Append(events, [event_type |-> event_type, char |-> char,
                                 timestamp |-> t])
    /\ recorded' = Append(recorded, [event_type |-> event_type,
                                     char |-> char, timestamp |-> t])
    /\ UNCHANGED <<is_monitoring, start_time, discarded>>

\* record_keystroke with "self.events.insert(0, event)"
record_keystroke_prepending(char, event_type, t) ==
    /\ op' = "record_keystroke"
    /\ args' = <<char, event_type>>
    /\ ret' = <<>>
    /\ IF ~is_monitoring
       THEN UNCHANGED <<events, is_monitoring, start_time, now, monotonic, recorded,
                        discarded>>
       ELSE /\ Len(events) < MaxEvents
            /\ ReadClock(t)
            /\ events' = <<[event_type |-> event_type, char |-> char,
                            timestamp |-> t]>> \o events
            /\ recorded' = Append(recorded, [event_type |-> event_type,
                                             char |-> char, timestamp |-> t])
            /\ UNCHANGED <<is_monitoring, start_time, discarded>>

record_keystroke(char, event_type, t) ==
    /\ op' = "record_keystroke"
    /\ args' = <<char, event_type>>
    /\ ret' = <<>>
    /\ IF ~is_monitoring
       THEN UNCHANGED <<events, is_monitoring, start_time, now, monotonic, recorded,
                        discarded>>
       ELSE /\ Len(events) < MaxEvents
            /\ ReadClock(t)
            /\ events' = Append(events, [event_type |-> event_type, char |-> char,
                                         timestamp |-> t])
            /\ recorded' = Append(recorded, [event_type |-> event_type,
                                             char |-> char, timestamp |-> t])
            /\ UNCHANGED <<is_monitoring, start_time, discarded>>

\* finish_monitoring testing "not self.start_time" alone
finish_monitoring_analysing_empty_log(final_text, t, stamp) ==
    /\ is_monitoring' = FALSE
    /\ ReadClock(t)
    /\ ret' = IF Falsy(start_time)
              THEN <<_empty_result(stamp)>>
              ELSE IF 0 \in Denominators(events, start_time[1], final_text, t)
              THEN <<[raised |-> "ZeroDivisionError"]>>
              ELSE <<_analyze(events, start_time[1], final_text, t, stamp)>>
    /\ op' = "finish_monitoring"
    /\ args' = <<final_text>>
    /\ UNCHANGED <<events, start_time, recorded, discarded>>

finish_monitoring(final_text, t, stamp) ==
    /\ is_monitoring' = FALSE
    /\ ReadClock(t)
    /\ ret' = IF events = <<>> \/ Falsy(start_time)
              THEN <<_empty_result(stamp)>>
              ELSE IF 0 \in Denominators(events, start_time[1], final_text, t)
              THEN <<[raised |-> "ZeroDivisionError"]>>
              ELSE <<_analyze(events, start_time[1], final_text, t, stamp)>>
    /\ op' = "finish_monitoring"
    /\ args' = <<final_text>>
    /\ UNCHANGED <<events, start_time, recorded, discarded>>

Next ==
    \/ \E t \in Times : start_monitoring(t)
    \/ \E key \in Keystrokes, t \in Times : record_keystroke(key[1], key[2], t)
    \/ \E final_text \in Texts, t \in Times, stamp \in Times :
           finish_monitoring(final_text, t, stamp)

Spec == Init /\ [][Next]_vars

\* A session met after MaxTyped keys have been typed, 0.1 s after one
\* another, all at one instant, or with the clock set back 0.1 s each time;
\* from there on the operations are called as in Spec.
TypedLogs ==
    {[i \in 1..MaxTyped |-> [event_type |-> "type", char |-> "a",
                             timestamp |-> 2000 + step * i]] : step \in {0, 100, -100}}

InitTyped ==
    \/ Init
    \/ /\ events \in TypedLogs
       /\ is_monitoring = TRUE
       /\ start_time = <<2000>>
       /\ now = <<events[Len(events)].timestamp>>
       /\ monotonic = (events[1].timestamp >= 2000)
       /\ recorded = events
       /\ discarded = FALSE
       /\ op = "record_keystroke"
       /\ args = <<"a", "type">>
       /\ ret = <<>>

SpecTyped == InitTyped /\ [][Next]_vars

\* A session met after four keys have been typed 0, 1 and 25 ms after one
\* another (consistency 0.33327...), alone or followed by two backspaces:
\* the composite score is then 0.79998... or 0.59998..., just below a band.
BandEdgeLogs ==
    LET offsets == <<0, 0, 1, 26>>
        typed == [i \in 1..4 |-> [event_type |-> "type", char |-> "a",
                                  timestamp |-> 2000 + offsets[i]]]
        deleted == [i \in 1..2 |-> [event_type |-> "backspace", char |-> "",
                                    timestamp |-> 2026]]
    IN {typed, typed \o deleted}

InitBandEdge ==
    \/ Init
    \/ /\ events \in BandEdgeLogs
       /\ is_monitoring = TRUE
       /\ start_time = <<2000>>
       /\ now = <<events[Len(events)].timestamp>>
       /\ monotonic = TRUE
       /\ recorded = events
       /\ discarded = FALSE
       /\ op = "record_keystroke"
       /\ args = <<events[Len(events)].char, events[Len(events)].event_type>>
       /\ ret = <<>>

SpecBandEdge == InitBandEdge /\ [][Next]_vars

\* A session met 0.5 s after the clock's origin, with one key typed 1 s or
\* 1.5 s after the start, or one stamped before the start by a clock that
\* was set back.
ClockedLogs ==
    {<<[event_type |-> "type", char |-> "a", timestamp |-> t]>> :
         t \in {400, 1500, 2000}}

InitClocked ==
    \/ Init
    \/ /\ events \in ClockedLogs
       /\ is_monitoring = TRUE
       /\ start_time = <<500>>
       /\ now = <<events[1].timestamp>>
       /\ monotonic = (events[1].timestamp >= 500)
       /\ recorded = events
       /\ discarded = FALSE
       /\ op = "record_keystroke"
       /\ args = <<"a", "type">>
       /\ ret = <<>>

SpecClocked == InitClocked /\ [][Next]_vars


-----------------------------------------------------------------------------
(* Properties of the session *)

\* the {type, char, time} entries of a log
Trajectory(log) ==
    [i \in 1..Len(log) |-> [type |-> log[i].event_type, char |-> log[i].char,
                            time |-> log[i].timestamp]]

\* the field names of a Profile (spec.md, section 6)
ProfileFields ==
    {"timestamp", "duration_seconds", "chars_per_minute", "pause_pattern",
     "consistency", "text_rhythm", "rhythm_type", "total_keystrokes",
     "actual_chars", "avg_interval", "deletion_count", "deletion_ratio",
     "deletion_patterns", "modification_count", "modifications", "burst_count",
     "burst_segments", "max_burst_speed", "hesitation_count",
     "hesitation_locations", "hesitations", "fluency_score", "fluency_level",
     "typing_trajectory", "keystroke_ratio"}

\* C1: record_keystroke appends exactly one event, with the given char and
\* event_type and the current time, at the end of the log when the session
\* is monitoring; when the session is idle it leaves the log, the start
\* timestamp and the monitoring flag unchanged.
C1_RecordKeystroke ==
    [][op' = "record_keystroke" =>
        IF is_monitoring
        THEN /\ events' = Append(events, [event_type |-> args'[2],
                                          char |-> args'[1],
                                          timestamp |-> now'[1]])
             /\ is_monitoring'
             /\ start_time' = start_time
        ELSE /\ events' = events
             /\ start_time' = start_time
             /\ is_monitoring' = FALSE]_vars

\* record_keystroke has run on an idle session, after a finish_monitoring
\* that left a non-empty log
C1_Witness ==
    /\ op = "record_keystroke"
    /\ ~is_monitoring
    /\ events # <<>>

\* C2: start_monitoring leaves the session monitoring with an empty log and
\* the time just read as its start; and a Profile finish_monitoring returns
\* holds, in total_keystrokes and typing_trajectory, only events recorded
\* since the most recent start_monitoring.
C2_StartResets ==
    /\ [][op' = "start_monitoring" =>
            /\ events' = <<>>
            /\ is_monitoring'
            /\ now' # <<>>
            /\ start_time' = now']_vars
    /\ [](op = "finish_monitoring" =>
            /\ ret[1].total_keystrokes <= Len(recorded)
            /\ Len(ret[1].typing_trajectory) <= Len(recorded)
            /\ \A i \in 1..Len(ret[1].typing_trajectory) :
                   ret[1].typing_trajectory[i] = Trajectory(recorded)[i])

\* a session that threw an earlier non-empty log away has been finished, and
\* its Profile holds the events recorded since
C2_Witness ==
    /\ op = "finish_monitoring"
    /\ discarded
    /\ recorded # <<>>
    /\ ret[1].typing_trajectory = Trajectory(recorded)

\* C3: finish_monitoring on an empty log, or on a session never started,
\* returns the fixed empty Profile whatever final_text is (the timestamp
\* aside).
C3_EmptyProfile ==
    (op = "finish_monitoring" /\ (events = <<>> \/ start_time = <<>>)) =>
        /\ ret[1].duration_seconds = 0
        /\ ret[1].chars_per_minute = 0
        /\ ret[1].pause_pattern = [short_pauses |-> 0, medium_pauses |-> 0,
                                   long_pauses |-> 0, pattern |-> "continuous"]
        /\ ret[1].consistency = 0
        /\ ret[1].text_rhythm = [sentence_count |-> 0, avg_sentence_length |-> 0,
                                 punctuation_rate |-> 0,
                                 rhythm_category |-> "balanced"]
        /\ ret[1].rhythm_type = "balanced"
        /\ ret[1].total_keystrokes = 0
        /\ ret[1].actual_chars = 0
        /\ ret[1].avg_interval = 0
        /\ ret[1].deletion_count = 0
        /\ ret[1].deletion_ratio = 0
        /\ ret[1].deletion_patterns = <<>>
        /\ ret[1].modification_count = 0
        /\ ret[1].modifications = <<>>
        /\ ret[1].burst_count = 0
        /\ ret[1].burst_segments = <<>>
        /\ ret[1].max_burst_speed = 0
        /\ ret[1].hesitation_count = 0
        /\ ret[1].hesitation_locations = <<>>
        /\ ret[1].hesitations = <<>>
        /\ ret[1].fluency_score = 0
        /\ ret[1].fluency_level = "normal"
        /\ ret[1].typing_trajectory = <<>>
        /\ ret[1].keystroke_ratio = 0

\* a started session with an empty log has been finished with a non-empty
\* final_text
C3_Witness ==
    /\ op = "finish_monitoring"
    /\ events = <<>>
    /\ ~Falsy(start_time)
    /\ args[1] # <<>>

\* C4: finish_monitoring leaves the session idle, and returns the computed
\* analysis for every started session with at least one recorded event,
\* whatever the start timestamp.
C4_FinishAnalyses ==
    op = "finish_monitoring" =>
        /\ ~is_monitoring
        /\ (events # <<>> /\ start_time # <<>>) =>
               ret[1] = _analyze(events, start_time[1], args[1], now[1],
                                 ret[1].timestamp)

\* C5: every Profile finish_monitoring returns, the empty default and the
\* computed one alike, has the same field names at the top level and inside
\* pause_pattern and text_rhythm.
C5_FullyPopulated ==
    op = "finish_monitoring" =>
        /\ DOMAIN ret[1] = ProfileFields
        /\ DOMAIN ret[1] = DOMAIN _empty_result(ret[1].timestamp)
        /\ DOMAIN ret[1].pause_pattern =
               {"short_pauses", "medium_pauses", "long_pauses", "pattern"}
        /\ DOMAIN ret[1].pause_pattern =
               DOMAIN _empty_result(ret[1].timestamp).pause_pattern
        /\ DOMAIN ret[1].text_rhythm =
               {"sentence_count", "avg_sentence_length", "punctuation_rate",
                "rhythm_category"}
        /\ DOMAIN ret[1].text_rhythm =
               DOMAIN _empty_result(ret[1].timestamp).text_rhythm

\* a computed Profile has been returned, to compare with the empty default
C5_Witness ==
    /\ op = "finish_monitoring"
    /\ ret[1].total_keystrokes > 0
    /\ ret[1] # _empty_result(ret[1].timestamp)

\* C6: for every session with a non-empty log, typing_trajectory is the log
\* entry for entry, in order, and total_keystrokes is its length.
C6_TrajectoryVerbatim ==
    (op = "finish_monitoring" /\ events # <<>>) =>
        /\ ret[1].typing_trajectory = Trajectory(events)
        /\ ret[1].total_keystrokes = Len(ret[1].typing_trajectory)


-----------------------------------------------------------------------------
(* The analysis methods on their own: a detector as constructed, or holding *)
(* a given log, whose method is called once on a given argument            *)

\* the sequences over S of length at most n
SeqsUpTo(S, n) == UNION {[1..k -> S] : k \in 0..n}

Constructed ==
    /\ is_monitoring = FALSE
    /\ start_time = <<>>
    /\ now = <<>>
    /\ monotonic = TRUE
    /\ recorded = <<>>
    /\ discarded = FALSE
    /\ ret = <<>>

\* a log of events of the given types
LogOf(types) ==
    [i \in 1..Len(types) |-> [event_type |-> types[i], char |-> "", timestamp |-> 0]]

DeletionLogs ==
    {LogOf(types) : types \in SeqsUpTo(EventTypes, MaxDeletionLog)
                        \cup SeqsUpTo({"type", "backspace", "delete"},
                                      MaxDeletionKeys)}

InitDeletions ==
    /\ Constructed
    /\ events \in DeletionLogs
    /\ op = "__init__"
    /\ args = <<>>

CallAnalyzeDeletions ==
    /\ op = "__init__"
    /\ op' = "_analyze_deletions"
    /\ ret' = <<_analyze_deletions(events)>>
    /\ UNCHANGED <<events, is_monitoring, start_time, now, monotonic, recorded,
                   discarded, args>>

SpecDeletions == InitDeletions /\ [][CallAnalyzeDeletions]_vars

\* intervals in ms: -0.05 s (timestamps out of order), 0, 0.1 s, 0.15 s, 1 s
BurstIntervals ==
    SeqsUpTo({-50, 0, 100, 150, 1000}, MaxBurstIntervals)
        \cup SeqsUpTo({100, 1000}, MaxBurstLong)

InitBursts ==
    /\ Constructed
    /\ events = <<>>
    /\ op = "__init__"
    /\ args \in {<<intervals>> : intervals \in BurstIntervals}

CallDetectBursts ==
    /\ op = "__init__"
    /\ op' = "_detect_bursts"
    /\ ret' = <<_detect_bursts(args[1])>>
    /\ UNCHANGED <<events, is_monitoring, start_time, now, monotonic, recorded,
                   discarded, args>>

SpecBursts == InitBursts /\ [][CallDetectBursts]_vars

\* intervals in ms: -1 s, 0, 1 s, 1.999 s, 2 s, 4.999 s, 5 s, 14.999 s, 15 s,
\* 16 s
PauseIntervals ==
    SeqsUpTo({-1000, 0, 1000, 1999, 2000, 4999, 5000, 14999, 15000, 16000},
             MaxPauseIntervals)

InitPauses ==
    /\ Constructed
    /\ events = <<>>
    /\ op = "__init__"
    /\ args \in {<<intervals>> : intervals \in PauseIntervals}

CallAnalyzePauses ==
    /\ op = "__init__"
    /\ op' = "_analyze_pauses"
    /\ ret' = <<_analyze_pauses(args[1])>>
    /\ UNCHANGED <<events, is_monitoring, start_time, now, monotonic, recorded,
                   discarded, args>>

SpecPauses == InitPauses /\ [][CallAnalyzePauses]_vars


\* cpm in tenths of a character per minute; scores 0, 0.5, just below 0.7,
\* 0.7, just above 0.7, 1; the pause pattern labels of PausePattern
\* (src/crpl/types.py:68-72)
RhythmInputs ==
    {<<Rat(n, 10), c, p>> :
        n \in {0, 599, 600, 601, 900, 1199, 1200, 1201, 3000},
        c \in {ScoreZero, [D |-> 1, S |-> 1], [D |-> 901, S |-> 50],
               [D |-> 900, S |-> 50], [D |-> 899, S |-> 50], ScoreOne},
        p \in {"continuous", "choppy", "thoughtful", "contemplative", "mixed"}}

InitRhythm ==
    /\ Constructed
    /\ events = <<>>
    /\ op = "__init__"
    /\ args \in RhythmInputs

CallClassifyRhythmType ==
    /\ op = "__init__"
    /\ op' = "_classify_rhythm_type"
    /\ ret' = <<_classify_rhythm_type(args[1], args[2], args[3])>>
    /\ UNCHANGED <<events, is_monitoring, start_time, now, monotonic, recorded,
                   discarded, args>>

SpecRhythm == InitRhythm /\ [][CallClassifyRhythmType]_vars

\* consistency scores 0, 1 - sqrt(2)/2, 0.7, 0.99 and 1; deletion ratios 0,
\* 1/4, 1/3, 1/2 and 1; pause counts; 0 to MaxHesitations hesitations
FluencyInputs ==
    {<<c, r, [short_pauses |-> s, medium_pauses |-> m, long_pauses |-> l,
              pattern |-> "continuous"], h>> :
        c \in {ScoreZero, [D |-> 2, S |-> 1], [D |-> 900, S |-> 50],
               [D |-> 1, S |-> 50], ScoreOne},
        r \in {Rat(0, 1), Rat(1, 4), Rat(1, 3), Rat(1, 2), Rat(1, 1)},
        s \in {0, 5, 10}, m \in {0, 1}, l \in {0, 1, 4},
        h \in 0..MaxHesitations}

InitFluency ==
    /\ Constructed
    /\ events = <<>>
    /\ op = "__init__"
    /\ args \in FluencyInputs

CallCalculateFluency ==
    /\ op = "__init__"
    /\ op' = "_calculate_fluency"
    /\ ret' = <<_calculate_fluency(args[1], args[2], args[3], args[4])>>
    /\ UNCHANGED <<events, is_monitoring, start_time, now, monotonic, recorded,
                   discarded, args>>

SpecFluency == InitFluency /\ [][CallCalculateFluency]_vars

\* intervals in ms: -1 s and -0.05 s (timestamps out of order), 0, 0.05 s,
\* 0.1 s, 1 s
ConsistencyIntervals ==
    SeqsUpTo({-1000, -50, 0, 50, 100, 1000}, MaxConsistencyIntervals)

InitConsistency ==
    /\ Constructed
    /\ events = <<>>
    /\ op = "__init__"
    /\ args \in {<<intervals>> : intervals \in ConsistencyIntervals}

CallCalculateConsistency ==
    /\ op = "__init__"
    /\ op' = "_calculate_consistency"
    /\ ret' = <<_calculate_consistency(args[1])>>
    /\ UNCHANGED <<events, is_monitoring, start_time, now, monotonic, recorded,
                   discarded, args>>

SpecConsistency == InitConsistency /\ [][CallCalculateConsistency]_vars

\* the event types that count as typing (src/crpl/detector.py:123)
TypingTypes == {"type", "composition", "composition_confirm"}

\* a log of events of the given types, the i-th recorded at 0.1 * i * i s,
\* so that the difference of two timestamps tells which events they are of
TimedLogOf(types) ==
    [i \in 1..Len(types) |->
        [event_type |-> types[i], char |-> "", timestamp |-> 100 * i * i]]

\* logs of any types in time order, and logs of "type" and "backspace"
\* events with timestamps in any order
IntervalLogs ==
    {TimedLogOf(types) : types \in SeqsUpTo(EventTypes, MaxIntervalLog)}
        \cup SeqsUpTo([event_type : {"type", "backspace"}, char : {""},
                       timestamp : {0, 100, 300}], MaxIntervalShuffled)

InitIntervals ==
    /\ Constructed
    /\ events \in IntervalLogs
    /\ op = "__init__"
    /\ args = <<>>

\* the part of _analyze that extracts the intervals
CallExtractIntervals ==
    /\ op = "__init__"
    /\ op' = "_analyze"
    /\ ret' = <<Intervals(EventsOfType(events, TypingTypes))>>
    /\ UNCHANGED <<events, is_monitoring, start_time, now, monotonic, recorded,
                   discarded, args>>

SpecIntervals == InitIntervals /\ [][CallExtractIntervals]_vars

\* intervals in ms: -1 s, 1 s, 2.996 s, 3 s, 4.996 s, 5 s, 9.996 s, 10 s
HesitationIntervals ==
    SeqsUpTo({-1000, 1000, 2996, 3000, 4996, 5000, 9996, 10000},
             MaxHesitationIntervals)

InitHesitations ==
    /\ Constructed
    /\ events = <<>>
    /\ op = "__init__"
    /\ args \in {<<intervals>> : intervals \in HesitationIntervals}

CallMapHesitations ==
    /\ op = "__init__"
    /\ op' = "_map_hesitations"
    /\ ret' = <<_map_hesitations(args[1])>>
    /\ UNCHANGED <<events, is_monitoring, start_time, now, monotonic, recorded,
                   discarded, args>>

SpecHesitations == InitHesitations /\ [][CallMapHesitations]_vars

\* texts: up to MaxLetters letters followed by one of a few endings, and
\* every text of up to MaxTextLen characters over a small alphabet
TextEndings ==
    {<<>>, <<",">>, <<",", ",">>, <<",", ",", ",">>, <<",", ",", ",", ",">>,
     <<".">>, <<".", " ", "b">>, <<"U+3002", "b", "!">>,
     <<",", ".", "b", "?", " ">>}

AnalysedTexts ==
    {[i \in 1..n |-> "a"] \o ending : n \in 0..MaxLetters, ending \in TextEndings}
        \cup SeqsUpTo({"a", " ", ".", ",", "U+FF1F"}, MaxTextLen)

InitTextRhythm ==
    /\ Constructed
    /\ events = <<>>
    /\ op = "__init__"
    /\ args \in {<<text>> : text \in AnalysedTexts}

CallAnalyzeTextRhythm ==
    /\ op = "__init__"
    /\ op' = "_analyze_text_rhythm"
    /\ ret' = <<_analyze_text_rhythm(args[1])>>
    /\ UNCHANGED <<events, is_monitoring, start_time, now, monotonic, recorded,
                   discarded, args>>

SpecTextRhythm == InitTextRhythm /\ [][CallAnalyzeTextRhythm]_vars

-----------------------------------------------------------------------------
(* Properties of the analysis methods *)

\* the maximal runs <<first, last>> of backspace and delete events in a log
DeletionRuns(log) ==
    LET Key(i) == log[i].event_type \in {"backspace", "delete"}
    IN {r \in (1..Len(log)) \X (1..Len(log)) :
            /\ r[1] <= r[2]
            /\ \A i \in r[1]..r[2] : Key(i)
            /\ r[1] = 1 \/ ~Key(r[1] - 1)
            /\ r[2] = Len(log) \/ ~Key(r[2] + 1)}

\* C7: the deletion patterns are the maximal runs of backspace and delete
\* events of length 3 or more in the whole log, one record each with the
\* run's length, in log order; [type, backspace, backspace, backspace, type]
\* gives one record of length 3.
C7_DeletionRuns ==
    op = "_analyze_deletions" =>
        LET patterns == ret[1][3]
            runs == {r \in DeletionRuns(events) : r[2] - r[1] + 1 >= 3}
        IN /\ Len(patterns) = Cardinality(runs)
           /\ \A r \in runs :
                  patterns[1 + Cardinality({q \in runs : q[1] < r[1]})] =
                      [type |-> "consecutive", length |-> r[2] - r[1] + 1]
           /\ events = LogOf(<<"type", "backspace", "backspace", "backspace", "type">>)
                  => patterns = <<[type |-> "consecutive", length |-> 3]>>

\* the maximal runs <<first, last>> of intervals below 150 ms that
\* hold at least 5 intervals
BurstRuns(intervals) ==
    {r \in (1..Len(intervals)) \X (1..Len(intervals)) :
        /\ r[2] - r[1] + 1 >= 5
        /\ \A i \in r[1]..r[2] : intervals[i] < 150
        /\ r[1] = 1 \/ intervals[r[1] - 1] >= 150
        /\ r[2] = Len(intervals) \/ intervals[r[2] + 1] >= 150}

\* the segments are the runs of BurstRuns, in order, with their start and
\* length, and the speed of each is Speed(length, sum of its intervals)
BurstsAre(intervals, result, Speed(_, _)) ==
    LET runs == BurstRuns(intervals)
    IN /\ result[1] = Cardinality(runs)
       /\ Len(result[2]) = Cardinality(runs)
       /\ \A r \in runs :
              LET seg == result[2][1 + Cardinality({q \in runs : q[1] < r[1]})]
              IN /\ seg.start = r[1] - 1
                 /\ seg.length = r[2] - r[1] + 1
                 /\ Speed(seg, Sum(SubSeq(intervals, r[1], r[2])))
       /\ intervals = <<100, 100, 100, 100, 100, 1000>> =>
              /\ result[1] = 1
              /\ result[2] = <<[start |-> 0, length |-> 5, avg_speed |-> 100]>>
       /\ intervals = <<100, 100, 100, 100, 100>> => result[1] = 1

\* C8 (as amended): every maximal run of at least 5 intervals below 150 ms,
\* a run that reaches the end of the sequence included, is emitted as one
\* segment with its start, its length, and avg_speed = length / (sum of the
\* run's intervals) rounded to one decimal place, or 0 when that sum is not
\* positive; nothing else is emitted.
C8_BurstSegments ==
    op = "_detect_bursts" =>
        BurstsAre(args[1], ret[1],
                  LAMBDA seg, sum :
                      seg.avg_speed = IF sum > 0
                                      THEN RoundDiv(10 * 1000 * seg.length, sum)
                                      ELSE 0)

\* a burst that reaches the end of the sequence has been emitted, with a
\* speed that is not a multiple of 0.1 before rounding (5 / 0.3 s)
C8_Witness ==
    /\ op = "_detect_bursts"
    /\ args[1] = <<100, 100, 100, 0, 0>>
    /\ ret[1][2] = <<[start |-> 0, length |-> 5, avg_speed |-> 167]>>

\* C8 (as claimed): the same with avg_speed = length / (sum of the run's
\* intervals) itself, and 0 if that sum is 0.
C8_BurstSegmentsExact ==
    op = "_detect_bursts" =>
        BurstsAre(args[1], ret[1],
                  LAMBDA seg, sum :
                      IF sum = 0 THEN seg.avg_speed = 0
                      ELSE seg.avg_speed * sum = 10 * 1000 * seg.length)

\* C9: short, medium and long pauses count the intervals in [2, 5), [5, 15)
\* and [15, inf) seconds; the pattern is contemplative if there is a long
\* pause, else thoughtful if a medium one, else choppy if a short one, else
\* continuous, and never mixed.
C9_PauseClassification ==
    op = "_analyze_pauses" =>
        LET intervals == args[1]
            In(lo, hi) == Cardinality({i \in 1..Len(intervals) :
                              lo <= intervals[i] /\ intervals[i] < hi})
            long == Cardinality({i \in 1..Len(intervals) : intervals[i] >= 15000})
        IN /\ ret[1].short_pauses = In(2000, 5000)
           /\ ret[1].medium_pauses = In(5000, 15000)
           /\ ret[1].long_pauses = long
           /\ ret[1].short_pauses + ret[1].medium_pauses + ret[1].long_pauses
                  = Cardinality({i \in 1..Len(intervals) : intervals[i] >= 2000})
           /\ ret[1].pattern = CASE long > 0 -> "contemplative"
                                 [] long = 0 /\ In(5000, 15000) > 0 -> "thoughtful"
                                 [] long = 0 /\ In(5000, 15000) = 0 /\ In(2000, 5000) > 0
                                        -> "choppy"
                                 [] OTHER -> "continuous"
           /\ ret[1].pattern # "mixed"
           /\ intervals = <<16000, 1000>> => ret[1].pattern = "contemplative"

\* a sequence with a long and a short pause has been classified
C9_Witness ==
    /\ op = "_analyze_pauses"
    /\ ret[1].long_pauses > 0
    /\ ret[1].short_pauses > 0
    /\ ret[1].pattern = "contemplative"

\* the decision table of the rhythm classifier (spec.md, section 4.9)
RhythmTable(cpm, consistency, pause_pattern) ==
    LET steady == ScoreGt(consistency, 7, 10)
    IN CASE cpm.n > 120 * cpm.d /\ steady /\ pause_pattern = "continuous"
                -> "steady_fast"
         [] cpm.n > 120 * cpm.d /\ steady /\ pause_pattern # "continuous"
                -> "burst_fast"
         [] cpm.n > 120 * cpm.d /\ ~steady -> "erratic_fast"
         [] cpm.n < 60 * cpm.d /\ steady -> "steady_slow"
         [] cpm.n < 60 * cpm.d /\ ~steady
                /\ pause_pattern \in {"thoughtful", "contemplative"} -> "hesitant"
         [] cpm.n < 60 * cpm.d /\ ~steady
                /\ pause_pattern \notin {"thoughtful", "contemplative"} -> "labored"
         [] cpm.n >= 60 * cpm.d /\ cpm.n <= 120 * cpm.d /\ steady -> "fluid"
         [] cpm.n >= 60 * cpm.d /\ cpm.n <= 120 * cpm.d /\ ~steady
                /\ pause_pattern = "thoughtful" -> "measured"
         [] cpm.n >= 60 * cpm.d /\ cpm.n <= 120 * cpm.d /\ ~steady
                /\ pause_pattern # "thoughtful" -> "uneven"

\* the classifier follows the decision table on every input, and never
\* answers balanced (the part of C10 about the classifier alone)
RhythmFollowsTable ==
    op = "_classify_rhythm_type" =>
        /\ ret[1] = RhythmTable(args[1], args[2], args[3])
        /\ ret[1] # "balanced"
        /\ (args[1] \in {Rat(600, 10), Rat(1200, 10)} /\ args[2] = ScoreOne)
               => ret[1] = "fluid"
        /\ (args[1] = Rat(3000, 10) /\ args[2] = [D |-> 900, S |-> 50])
               => ret[1] = "erratic_fast"

\* C10: the rhythm_type of a session follows the decision table on its
\* characters per minute, consistency and pause pattern, and balanced is
\* never the rhythm_type of a session with a non-empty log.
C10_RhythmOfSession ==
    (op = "finish_monitoring" /\ events # <<>>) =>
        LET duration == now[1] - start_time[1]
            cpm == IF duration > 0 THEN Rat(Len(args[1]) * 1000 * 60, duration)
                   ELSE Rat(0, 1)
            intervals == Intervals(EventsOfType(events,
                             {"type", "composition", "composition_confirm"}))
        IN /\ ret[1].rhythm_type =
                  RhythmTable(cpm, _calculate_consistency(intervals),
                              ret[1].pause_pattern.pattern)
           /\ ret[1].rhythm_type # "balanced"

\* the composite score f = 3/10 * (1 - sqrt(D) / (2 * S)) + n / (100 * e) is
\* at least b / 100:  (30 - b) * e + n >= 15 * e * sqrt(D) / S
ScoreAtLeast(f, b) ==
    LET e == f.d \div 100
        A == (30 - b) * e + f.n
    IN /\ A >= 0
       /\ A * A * f.cons.S * f.cons.S >= 225 * e * e * f.cons.D

\* C11: the level is very_fluent when the composite score is >= 0.8, fluent
\* when it is >= 0.6 and < 0.8, normal when it is >= 0.4 and < 0.6, hesitant
\* when it is < 0.4: exactly one level for every input, and a score of
\* exactly 0.8 is very_fluent.
C11_LevelBands ==
    op = "_calculate_fluency" =>
        LET f == ret[1][1]
            level == ret[1][2]
        IN /\ level \in {"very_fluent", "fluent", "normal", "hesitant"}
           /\ level = "very_fluent" <=> ScoreAtLeast(f, 80)
           /\ level = "fluent" <=> (ScoreAtLeast(f, 60) /\ ~ScoreAtLeast(f, 80))
           /\ level = "normal" <=> (ScoreAtLeast(f, 40) /\ ~ScoreAtLeast(f, 60))
           /\ level = "hesitant" <=> ~ScoreAtLeast(f, 40)
           \* 0.3 + 0.3 + 0.2 + 0 = 0.8, and 0.3 * 0.99 + 0.3 + 0.2 + 0 = 0.797
           /\ (args[2] = Rat(0, 1) /\ args[4] = 5 /\ args[3].short_pauses = 0
                   /\ args[3].medium_pauses = 0 /\ args[3].long_pauses = 0) =>
                  /\ args[1] = ScoreOne => level = "very_fluent"
                  /\ args[1] = [D |-> 1, S |-> 50] => level = "fluent"

\* a score of exactly 0.8 (consistency 1, no deletions, no pauses, five
\* hesitations) has been given the level very_fluent
C11_Witness ==
    /\ op = "_calculate_fluency"
    /\ args[1] = ScoreOne
    /\ args[2] = Rat(0, 1)
    /\ args[3].short_pauses = 0 /\ args[3].medium_pauses = 0
    /\ args[3].long_pauses = 0
    /\ args[4] = 5
    /\ ret[1][2] = "very_fluent"

\* C12: for every interval sequence, negative intervals included, the
\* consistency score 1 - sqrt(D) / (2 * S) is at least 0 and at most 1, so is
\* the value reported to three places, and the score is exactly 0 when there
\* are fewer than 2 intervals or their mean is 0.
C12_ConsistencyRange ==
    op = "_calculate_consistency" =>
        LET c == ret[1]
        IN /\ c.D >= 0
           /\ c.S > 0
           /\ c.D <= 4 * c.S * c.S
           /\ RoundScore(c) \in 0..1000
           /\ (Len(args[1]) < 2 \/ Sum(args[1]) = 0) =>
                  (c.D = 4 * c.S * c.S /\ RoundScore(c) = 0)

\* two or more intervals with a negative mean, from timestamps out of order,
\* have been scored: 1 - cv / 2 is above 1 and the score is 1
C12_Witness ==
    /\ op = "_calculate_consistency"
    /\ Len(args[1]) >= 2
    /\ Sum(args[1]) < 0
    /\ SumSq(args[1]) * Len(args[1]) # Sum(args[1]) * Sum(args[1])
    /\ ret[1] = ScoreOne

\* C13: in the Profile of every session deletion_ratio and fluency_score are
\* at least 0 and at most 1; and for a session with a non-empty log
\* deletion_ratio is the number of backspace, delete and composition_delete
\* events over the number of events, and fluency_score is
\* 0.30 * consistency + 0.30 * max(0, 1 - 2 * deletion_ratio)
\* + 0.20 * max(0, 1 - (short + 2 * medium + 3 * long) / 10)
\* + 0.20 * max(0, 1 - hesitation_count / 5), each as reported to three
\* places.
C13_RatioAndFluency ==
    op = "finish_monitoring" =>
        /\ ret[1].deletion_ratio \in 0..1000
        /\ ret[1].fluency_score \in 0..1000
        /\ (events # <<>> /\ start_time # <<>>) =>
               LET total == Len(events)
                   count == Cardinality({i \in 1..total : events[i].event_type \in
                                {"backspace", "delete", "composition_delete"}})
                   intervals == Intervals(EventsOfType(events,
                                    {"type", "composition", "composition_confirm"}))
                   penalty == ret[1].pause_pattern.short_pauses
                              + 2 * ret[1].pause_pattern.medium_pauses
                              + 3 * ret[1].pause_pattern.long_pauses
                   \* the three rational terms over 100 * total
                   deletion_term == 30 * Max(0, total - 2 * count)
                   pause_term == 2 * Max(0, 10 - penalty) * total
                   hesitation_term == 4 * Max(0, 5 - ret[1].hesitation_count) * total
               IN /\ ret[1].deletion_ratio = RoundDiv(1000 * count, total)
                  /\ ret[1].fluency_score =
                         RoundFluency([cons |-> _calculate_consistency(intervals),
                                       n |-> deletion_term + pause_term
                                             + hesitation_term,
                                       d |-> 100 * total])

\* C14: for every session with a non-empty log, total_keystrokes is the
\* length of the log, actual_chars the length of final_text, and
\* keystroke_ratio is total_keystrokes / actual_chars as reported to two
\* places, or 0 when final_text is empty.
C14_KeystrokeRatio ==
    (op = "finish_monitoring" /\ events # <<>>) =>
        /\ ret[1].total_keystrokes = Len(events)
        /\ ret[1].actual_chars = Len(args[1])
        /\ ret[1].keystroke_ratio =
               IF args[1] = <<>> THEN 0
               ELSE RoundDiv(100 * Len(events), Len(args[1]))

\* C15: with n events of type type, composition or composition_confirm in
\* the log there are n - 1 intervals (none when n is 0 or 1), the k-th being
\* the timestamp of the (k+1)-th such event minus that of the k-th, in
\* arrival order; events of any other type, recognised or not, neither add
\* an interval nor split one.
C15_IntervalExtraction ==
    op = "_analyze" =>
        LET typing == {i \in 1..Len(events) : events[i].event_type \in
                          {"type", "composition", "composition_confirm"}}
            n == Cardinality(typing)
            Nth(k) == CHOOSE i \in typing : Cardinality({j \in typing : j < i}) = k - 1
        IN /\ Len(ret[1]) = IF n = 0 THEN 0 ELSE n - 1
           /\ n <= 1 => ret[1] = <<>>
           /\ \A k \in 1..(n - 1) :
                  ret[1][k] = events[Nth(k + 1)].timestamp - events[Nth(k)].timestamp

\* the intervals of a log have been extracted in which events of another
\* type, one of them unrecognised, lie between two typing events
C15_Witness ==
    /\ op = "_analyze"
    /\ Len(events) = 4
    /\ events[1].event_type = "type"
    /\ events[2].event_type = "backspace"
    /\ events[3].event_type = "scroll"
    /\ events[4].event_type = "composition_confirm"
    /\ ret[1] = <<events[4].timestamp - events[1].timestamp>>

\* the hesitations are the intervals of at least 3 s: hesitation_count is
\* their number, hesitation_locations their indices (from 0) in increasing
\* order, hesitations one {location, duration, severity} record for each
\* listed index in the same order, where Graded(record, interval) relates the
\* record's duration and severity to the interval
HesitationsAre(intervals, result, Graded(_, _)) ==
    LET at == {i \in 1..Len(intervals) : intervals[i] >= 3000}
        count == result[1]
        locations == result[2]
        hesitations == result[3]
    IN /\ count = Cardinality(at)
       /\ Len(locations) = count
       /\ Len(hesitations) = count
       /\ {locations[k] + 1 : k \in 1..count} = at
       /\ \A k \in 1..(count - 1) : locations[k] < locations[k + 1]
       /\ \A k \in 1..count :
              /\ DOMAIN hesitations[k] = {"location", "duration", "severity"}
              /\ hesitations[k].location = locations[k]
              /\ Graded(hesitations[k], intervals[locations[k] + 1])

\* C16 (as amended): the hesitations are the intervals of at least 3 s, listed
\* by index and by record in interval order; a record's duration is the
\* interval rounded to two decimal places, and its severity is very_long when
\* the interval itself is >= 10 s, long when it is >= 5 s and < 10 s, medium
\* when it is >= 3 s and < 5 s.
C16_Hesitations ==
    op = "_map_hesitations" =>
        HesitationsAre(args[1], ret[1],
            LAMBDA record, interval :
                /\ record.duration = RoundDiv(interval, 10)
                /\ record.severity = CASE interval >= 10000 -> "very_long"
                                       [] interval >= 5000 /\ interval < 10000 -> "long"
                                       [] interval >= 3000 /\ interval < 5000 -> "medium")

\* an interval of 4.996 s has been mapped, with one of 10 s after it: its
\* record shows the duration 5.0 and the severity medium
C16_Witness ==
    /\ op = "_map_hesitations"
    /\ args[1] = <<4996, 1000, 10000>>
    /\ ret[1] = <<2, <<0, 2>>,
                  <<[location |-> 0, duration |-> 500, severity |-> "medium"],
                    [location |-> 2, duration |-> 1000, severity |-> "very_long"]>> >>

\* C16 (as claimed): the same with the severity following the duration the
\* record shows: very_long when it is >= 10, long when it is >= 5 and < 10,
\* medium when it is >= 3 and < 5.
C16_HesitationsByDuration ==
    op = "_map_hesitations" =>
        HesitationsAre(args[1], ret[1],
            LAMBDA record, interval :
                record.severity = CASE record.duration >= 1000 -> "very_long"
                                    [] record.duration >= 500 /\ record.duration < 1000
                                           -> "long"
                                    [] record.duration >= 300 /\ record.duration < 500
                                           -> "medium")

\* the fragments <<first, last>> of a text between runs of sentence-terminal
\* punctuation that hold a character other than white space
Sentences(text) ==
    LET Terminal(i) == text[i] \in {".", "!", "?", "U+3002", "U+FF01", "U+FF1F"}
    IN {r \in (1..Len(text)) \X (1..Len(text)) :
            /\ r[1] <= r[2]
            /\ \A i \in r[1]..r[2] : ~Terminal(i)
            /\ r[1] = 1 \/ Terminal(r[1] - 1)
            /\ r[2] = Len(text) \/ Terminal(r[2] + 1)
            /\ \E i \in r[1]..r[2] : text[i] # " "}

\* C17: the category is decided by the text alone, through L = len(text) /
\* sentence_count and r = punctuation marks / len(text) (0 for the empty
\* text), first match: L < 20 and r < 0.05 concise; L < 20 and r >= 0.05
\* staccato; L >= 50 and r < 0.05 flowing; L >= 50 and r >= 0.08 complex;
\* otherwise r >= 0.08 punctuated; otherwise balanced.  sentence_count is the
\* number of non-blank fragments between runs of sentence-terminal
\* punctuation, or 1 if there are none, so it is at least 1.
C17_TextRhythm ==
    op = "_analyze_text_rhythm" =>
        LET text == args[1]
            len == Len(text)
            count == IF Sentences(text) = {} THEN 1 ELSE Cardinality(Sentences(text))
            marks == Cardinality({i \in 1..len : text[i] \in
                        {".", ",", "!", "?", ";", ":", "U+FF0C", "U+3002", "U+FF01",
                         "U+FF1F", "U+FF1B", "U+FF1A", "U+FF5E", "~"}})
            \* L < 20, L >= 50, r < 0.05, r >= 0.08
            short == len < 20 * count
            long == len >= 50 * count
            sparse == len = 0 \/ 100 * marks < 5 * len
            dense == len > 0 /\ 100 * marks >= 8 * len
        IN /\ ret[1].sentence_count = count
           /\ ret[1].sentence_count >= 1
           /\ ret[1].avg_sentence_length = RoundDiv(10 * len, count)
           /\ ret[1].rhythm_category =
                  CASE short /\ sparse -> "concise"
                    [] short /\ ~sparse -> "staccato"
                    [] long /\ sparse -> "flowing"
                    [] long /\ dense -> "complex"
                    [] ~short /\ ~(long /\ (sparse \/ dense)) /\ dense -> "punctuated"
                    [] ~short /\ ~(long /\ (sparse \/ dense)) /\ ~dense -> "balanced"

\* a text of 50 characters in one sentence with three commas (L = 50,
\* r = 0.06) has fallen through the first five rules to balanced
C17_Witness ==
    /\ op = "_analyze_text_rhythm"
    /\ Len(args[1]) = 50
    /\ Cardinality({i \in 1..50 : args[1][i] = ","}) = 3
    /\ ret[1].sentence_count = 1
    /\ ret[1].rhythm_category = "balanced"

\* C18: every call completes, whatever the calls before it:
\* start_monitoring and record_keystroke can be called with every argument
\* in every state and return nothing, finish_monitoring returns a Profile
\* and never leaves by an exception, and where a
\* denominator is zero (no intervals, a mean interval of 0, a session of
\* duration 0, an empty final_text, a burst of total time 0, an empty log)
\* the quotient reported is 0.
C18_NoFailure ==
    /\ \A t \in Times : ENABLED start_monitoring(t)
    /\ (Len(events) < MaxEvents \/ ~is_monitoring) =>
           \A key \in Keystrokes, t \in Times :
               ENABLED record_keystroke(key[1], key[2], t)
    /\ op \in {"start_monitoring", "record_keystroke"} => ret = <<>>
    /\ op = "finish_monitoring" =>
           LET profile == ret[1]
               intervals == Intervals(EventsOfType(events,
                                {"type", "composition", "composition_confirm"}))
           IN /\ DOMAIN profile = ProfileFields
              /\ intervals = <<>> => profile.avg_interval = 0
              /\ (Len(intervals) >= 2 /\ Sum(intervals) = 0) => profile.consistency = 0
              /\ (start_time # <<>> /\ now = start_time) =>
                     profile.chars_per_minute = 0
              /\ args[1] = <<>> =>
                     /\ profile.keystroke_ratio = 0
                     /\ profile.text_rhythm.punctuation_rate = 0
                     /\ profile.text_rhythm.sentence_count \in {0, 1}
              /\ \A k \in 1..Len(profile.burst_segments) :
                     LET burst == profile.burst_segments[k]
                     IN Sum(SubSeq(intervals, burst.start + 1,
                                   burst.start + burst.length)) = 0
                            => burst.avg_speed = 0
              /\ events = <<>> => profile.deletion_ratio = 0

\* a session in which all keys were typed at the instant it started has
\* been finished at that instant with an empty final_text: the duration,
\* the mean interval, the character count and the time of its one burst are
\* all 0
C18_Witness ==
    /\ op = "finish_monitoring"
    /\ Len(events) >= 6
    /\ now = start_time
    /\ args[1] = <<>>
    /\ ret[1].burst_count = 1
    /\ ret[1].burst_segments[1].avg_speed = 0
    /\ ret[1].chars_per_minute = 0
    /\ ret[1].consistency = 0
    /\ ret[1].keystroke_ratio = 0

\* C19: finish_monitoring leaves the event log and the start timestamp as
\* they were and the session idle; the log of an idle session changes only
\* by start_monitoring; and a finish_monitoring that follows another on a
\* non-empty log returns a Profile over that same log, with the
\* total_keystrokes and typing_trajectory of the first, not the empty default.
C19_FinishFrame ==
    [][/\ op' = "finish_monitoring" =>
              /\ events' = events
              /\ start_time' = start_time
              /\ ~is_monitoring'
       /\ (~is_monitoring /\ op' # "start_monitoring") => events' = events
       /\ (op = "finish_monitoring" /\ op' = "finish_monitoring" /\ events # <<>>) =>
              /\ ret'[1].total_keystrokes = ret[1].total_keystrokes
              /\ ret'[1].typing_trajectory = ret[1].typing_trajectory
              /\ ret'[1].total_keystrokes = Len(events)
              /\ ret'[1].typing_trajectory = Trajectory(events)
              /\ ret'[1] # _empty_result(ret'[1].timestamp)]_vars

\* C20: burst_count is the number of segments; the segments are in strictly
\* increasing start order and do not overlap; each has 0 <= start,
\* start + length <= number of intervals and length >= 5, and every interval
\* at its indices start .. start + length - 1 is below 150 ms; max_burst_speed
\* is the largest avg_speed of the segments, 0 when there are none.
C20_BurstsWellFormed ==
    op = "_detect_bursts" =>
        LET intervals == args[1]
            burst_count == ret[1][1]
            segments == ret[1][2]
            max_burst_speed == ret[1][3]
        IN /\ burst_count = Len(segments)
           /\ \A k \in 1..(Len(segments) - 1) :
                  segments[k + 1].start > segments[k].start + segments[k].length - 1
           /\ \A k \in 1..Len(segments) :
                  /\ 0 <= segments[k].start
                  /\ segments[k].start + segments[k].length <= Len(intervals)
                  /\ segments[k].length >= 5
                  \* the program counts the intervals from 0
                  /\ \A i \in segments[k].start..(segments[k].start + segments[k].length - 1) :
                         intervals[i + 1] < 150
           /\ segments = <<>> => max_burst_speed = 0
           /\ segments # <<>> =>
                  /\ \E k \in 1..Len(segments) : max_burst_speed = segments[k].avg_speed
                  /\ \A k \in 1..Len(segments) : segments[k].avg_speed <= max_burst_speed

\* two bursts have been found in one sequence, the second reaching its end
C20_Witness ==
    /\ op = "_detect_bursts"
    /\ ret[1][1] = 2
    /\ ret[1][2][2].start + ret[1][2][2].length = Len(args[1])


\* the level the bands of section 4.8 give to a score reported in thousandths
LevelOfReported(score) ==
    IF score >= 800 THEN "very_fluent"
    ELSE IF score >= 600 THEN "fluent"
    ELSE IF score >= 400 THEN "normal"
    ELSE "hesitant"

\* C21: in every Profile returned by finish_monitoring, the empty default
\* included, fluency_level is the level that the bands (at least 0.8
\* very_fluent, at least 0.6 fluent, at least 0.4 normal, below that
\* hesitant) give to the fluency_score that the same Profile reports.
C21_LevelOfReportedScore ==
    op = "finish_monitoring" =>
        ret[1].fluency_level = LevelOfReported(ret[1].fluency_score)

\* C21 as the program has it: a Profile that reports no keystrokes is the
\* empty default, with fluency_score 0 and fluency_level normal; in every
\* other Profile fluency_level is the level the bands give to the composite
\* score before it is rounded, of which fluency_score is the rounding to
\* three places, so it is the level of the reported fluency_score except
\* that a score reported as exactly 0.8, 0.6 or 0.4 may have the level of
\* the band below.
C21_LevelOfUnroundedScore ==
    op = "finish_monitoring" =>
        LET profile == ret[1]
            level == profile.fluency_level
        IN IF profile.total_keystrokes = 0
           THEN profile.fluency_score = 0 /\ level = "normal"
           ELSE LET total == Len(events)
                    count == Cardinality({i \in 1..total : events[i].event_type \in
                                 {"backspace", "delete", "composition_delete"}})
                    intervals == Intervals(EventsOfType(events,
                                     {"type", "composition", "composition_confirm"}))
                    penalty == profile.pause_pattern.short_pauses
                               + 2 * profile.pause_pattern.medium_pauses
                               + 3 * profile.pause_pattern.long_pauses
                    f == [cons |-> _calculate_consistency(intervals),
                          n |-> 30 * Max(0, total - 2 * count)
                                + 2 * Max(0, 10 - penalty) * total
                                + 4 * Max(0, 5 - profile.hesitation_count) * total,
                          d |-> 100 * total]
                IN /\ level = "very_fluent" <=> ScoreAtLeast(f, 80)
                   /\ level = "fluent" <=> (ScoreAtLeast(f, 60) /\ ~ScoreAtLeast(f, 80))
                   /\ level = "normal" <=> (ScoreAtLeast(f, 40) /\ ~ScoreAtLeast(f, 60))
                   /\ level = "hesitant" <=> ~ScoreAtLeast(f, 40)
                   /\ \/ level = LevelOfReported(profile.fluency_score)
                      \/ /\ profile.fluency_score \in {800, 600, 400}
                         /\ level = LevelOfReported(profile.fluency_score - 1)

\* a session of four keys has been finished with a composite score of
\* 0.79998...: the Profile reports fluency_score 0.8 with fluency_level fluent
C21_Witness ==
    /\ op = "finish_monitoring"
    /\ Len(events) = 4
    /\ ret[1].total_keystrokes = 4
    /\ ret[1].fluency_score = 800
    /\ ret[1].fluency_level = "fluent"


\* C22: as long as no clock reading has been below the one before it, the
\* timestamps of the log are non-decreasing along the log and none is below
\* the start timestamp; and in a Profile that finish_monitoring has then
\* computed, every interval is at least 0, the intervals sum to at most the
\* end time minus the start time, and duration_seconds (with it the mean
\* interval reported) is at least 0.
C22_MonotoneClock ==
    monotonic =>
        /\ \A i \in 1..Len(events) :
               start_time # <<>> /\ events[i].timestamp >= start_time[1]
        /\ \A i \in 1..(Len(events) - 1) :
               events[i].timestamp <= events[i + 1].timestamp
        /\ (op = "finish_monitoring" /\ ret[1].total_keystrokes > 0) =>
               LET intervals == Intervals(EventsOfType(events,
                                    {"type", "composition", "composition_confirm"}))
               IN /\ \A i \in 1..Len(intervals) : intervals[i] >= 0
                  /\ Sum(intervals) <= now[1] - start_time[1]
                  /\ ret[1].duration_seconds >= 0
                  /\ ret[1].avg_interval >= 0

\* a session started at 0.5 s, with keys typed at 1.5 s and 2 s, has been
\* finished at 2 s under a clock that never went back: one interval of
\* 0.5 s in a session of 1.5 s
C22_Witness ==
    /\ monotonic
    /\ op = "finish_monitoring"
    /\ start_time = <<500>>
    /\ Len(events) = 2
    /\ events[1].timestamp = 1500
    /\ events[2].timestamp = 2000
    /\ events[2].event_type = "type"
    /\ ret[1].total_keystrokes = 2
    /\ ret[1].avg_interval = 500
    /\ ret[1].duration_seconds = 150


=============================================================================
